---- MODULE Spec2Model ----
(***************************************************************************)
(* Model of OrderedMap<K, V> (src/src/lib.rs): a HashMap `inner` (the      *)
(* Index) plus a Vec `ordered_keys` (the Order Log), and OrderedMapIter,   *)
(* a cursor holding a slice `remainder_keys` of the Order Log.             *)
(***************************************************************************)
EXTENDS Integers, Sequences, FiniteSets, TLC

\* ---------------------------------------------------------------- bounds
MaxKey == 3
MaxVal == 2
MaxLog == 3
NumIters == 2

Keys == 1..MaxKey
Vals == 1..MaxVal
IterIds == 1..NumIters

\* ------------------------------------------------------ Option<T> values
None == <<>>
Some(x) == <<x>>

VARIABLES
    inner,          \* OrderedMap.inner : HashMap<K, V>, a function on the live keys
    ordered_keys,   \* OrderedMap.ordered_keys : Vec<K>
    iters,          \* the OrderedMapIter values alive, by identity
    call,           \* the last call made: the operation
    ret,            \* the value the last call returned
    firstInsert,    \* history: keys in the order of their first insert
    everRemoved,    \* history: keys a remove call has deleted at least once
    reinserted,     \* history: keys inserted again after having been removed
    slotOf,         \* history: per key, the slot its last insert-while-absent appended
    lastMut,        \* history: per key, what its last insert/remove left: Some(v) or None
    nDeleted,       \* history: the number of remove calls that deleted a key
    nAbsentInserts, \* history: per key, the number of inserts made while it was absent
    trace           \* history: per cursor, its next() calls and what they yielded

vars == <<inner, ordered_keys, iters, call, ret,
          firstInsert, everRemoved, reinserted, slotOf,
          lastMut, nDeleted, nAbsentInserts, trace>>

hist == <<firstInsert, everRemoved, reinserted, slotOf,
          lastMut, nDeleted, nAbsentInserts>>

\* ------------------------------------------------- HashMap / Vec helpers
contains_key(m, k) == k \in DOMAIN m

get(m, k) == IF k \in DOMAIN m THEN Some(m[k]) ELSE None

\* mutant: an occupied entry keeps its value (entry().or_insert semantics)
HashMapInsert_keep(m, k, v) == [x \in (DOMAIN m) \cup {k} |-> IF x \in DOMAIN m THEN m[x] ELSE v]

HashMapInsert(m, k, v) == [x \in (DOMAIN m) \cup {k} |-> IF x = k THEN v ELSE m[x]]

HashMapRemove(m, k) == [x \in (DOMAIN m) \ {k} |-> m[x]]

\* mutant: the key is put at the front of the Vec
push_front(vec, k) == <<k>> \o vec

push(vec, k) == Append(vec, k)

Range(s) == {s[i] : i \in 1..Len(s)}

\* ------------------------------------------------- OrderedMapIter::next
\* The `while let` loop of next(): take the first key of the remainder,
\* advance the slice, return the pair if the key is in the map.
\* mutant: `if let` in place of `while let`, the cursor gives up at a tombstone
WhileLet_if(m, rem) ==
    IF rem = <<>>
    THEN [item |-> None, remainder_keys |-> rem]
    ELSE LET key == Head(rem)
             rest == SubSeq(rem, 2, Len(rem))
         IN  IF contains_key(m, key)
             THEN [item |-> Some(<<key, m[key]>>), remainder_keys |-> rest]
             ELSE [item |-> None, remainder_keys |-> rest]

\* mutant: no contains_key test, the pair carries get(key) as it comes
WhileLet_stale(m, rem) ==
    IF rem = <<>>
    THEN [item |-> None, remainder_keys |-> rem]
    ELSE [item |-> Some(<<Head(rem), get(m, Head(rem))>>),
          remainder_keys |-> SubSeq(rem, 2, Len(rem))]

\* mutant: the slice is advanced once more after a pair is found
RECURSIVE WhileLet_skip(_, _)
WhileLet_skip(m, rem) ==
    IF rem = <<>>
    THEN [item |-> None, remainder_keys |-> rem]
    ELSE LET key == Head(rem)
             rest == SubSeq(rem, 2, Len(rem))
         IN  IF contains_key(m, key)
             THEN [item |-> Some(<<key, m[key]>>),
                   remainder_keys |-> SubSeq(rest, 2, Len(rest))]
             ELSE WhileLet_skip(m, rest)

RECURSIVE WhileLet(_, _)
WhileLet(m, rem) ==
    IF rem = <<>>
    THEN [item |-> None, remainder_keys |-> rem]
    ELSE LET key == Head(rem)
             rest == SubSeq(rem, 2, Len(rem))
         IN  IF contains_key(m, key)
             THEN [item |-> Some(<<key, m[key]>>), remainder_keys |-> rest]
             ELSE WhileLet(m, rest)

next(m, rem) ==
    IF rem = <<>>
    THEN [item |-> None, remainder_keys |-> rem]
    ELSE WhileLet(m, rem)

\* iter() followed by next() until it returns None: the yielded pairs, each
\* with the Order Log slot the cursor had just consumed when it yielded.
RECURSIVE Collect(_, _, _)
Collect(m, log, rem) ==
    LET n == next(m, rem)
    IN  IF n.item = None
        THEN <<>>
        ELSE <<[key   |-> n.item[1][1],
                value |-> n.item[1][2],
                slot  |-> Len(log) - Len(n.remainder_keys)]>>
             \o Collect(m, log, n.remainder_keys)

Drained(m, log) == Collect(m, log, log)

\* ------------------------------------------------------------ the state
NoIter == [alive |-> FALSE, remainder_keys |-> <<>>]

NoneAlive == \A c \in IterIds : ~iters[c].alive

Call(op) == [op |-> op]

\* the history of a cursor: the next() calls made up to and including the
\* first that returned None, the pairs yielded, whether None was returned,
\* whether next() was called again after that, and the pairs the map held,
\* in Order Log order, when iter() was called
NoTrace == [calls |-> 0, yielded |-> <<>>, exhausted |-> FALSE, again |-> FALSE,
            expect |-> <<>>]

PairsOf(d) == [i \in 1..Len(d) |-> <<d[i].key, d[i].value>>]

\* what an insert call adds to the history
InsertHistory(k, v) ==
    /\ lastMut' = [lastMut EXCEPT ![k] = Some(v)]
    /\ firstInsert' = IF k \in Range(firstInsert)
                      THEN firstInsert ELSE Append(firstInsert, k)
    /\ reinserted' = IF k \notin DOMAIN inner /\ k \in everRemoved
                     THEN reinserted \cup {k} ELSE reinserted
    /\ slotOf' = IF k \notin DOMAIN inner
                 THEN [slotOf EXCEPT ![k] = Len(ordered_keys) + 1] ELSE slotOf
    /\ nAbsentInserts' = IF k \notin DOMAIN inner
                         THEN [nAbsentInserts EXCEPT ![k] = @ + 1]
                         ELSE nAbsentInserts
    /\ UNCHANGED <<everRemoved, nDeleted>>

\* what a remove call adds to the history
RemoveHistory(k) ==
    /\ lastMut' = [lastMut EXCEPT ![k] = None]
    /\ everRemoved' = IF k \in DOMAIN inner
                      THEN everRemoved \cup {k} ELSE everRemoved
    /\ nDeleted' = IF k \in DOMAIN inner THEN nDeleted + 1 ELSE nDeleted
    /\ UNCHANGED <<firstInsert, reinserted, slotOf, nAbsentInserts>>

\* what a next() call that returned `item` adds to the history of a cursor
NextHistory(t, item) ==
    [calls     |-> IF t.exhausted THEN t.calls ELSE t.calls + 1,
     yielded   |-> IF item = None THEN t.yielded ELSE Append(t.yielded, item[1]),
     exhausted |-> t.exhausted \/ item = None,
     again     |-> t.exhausted,
     expect    |-> t.expect]

Init ==
    /\ inner = <<>>
    /\ ordered_keys = <<>>
    /\ iters = [c \in IterIds |-> NoIter]
    /\ call = Call("new")
    /\ ret = None
    /\ firstInsert = <<>>
    /\ everRemoved = {}
    /\ reinserted = {}
    /\ slotOf = [k \in Keys |-> 0]
    /\ lastMut = [k \in Keys |-> None]
    /\ nDeleted = 0
    /\ nAbsentInserts = [k \in Keys |-> 0]
    /\ trace = [c \in IterIds |-> NoTrace]

\* mutant: the contains_key test is inverted, a new key gets no slot
Insert_inverted(k, v) ==
    /\ call' = Call("insert")
    /\ InsertHistory(k, v)
    /\ NoneAlive
    /\ Len(ordered_keys) < MaxLog
    /\ ordered_keys' = IF contains_key(inner, k)
                       THEN push(ordered_keys, k)
                       ELSE ordered_keys
    /\ ret' = get(inner, k)
    /\ inner' = HashMapInsert(inner, k, v)
    /\ UNCHANGED <<iters, trace>>

\* mutant: the key is pushed on every insert, present or not
Insert_always(k, v) ==
    /\ call' = Call("insert")
    /\ InsertHistory(k, v)
    /\ NoneAlive
    /\ Len(ordered_keys) < MaxLog
    /\ ordered_keys' = push(ordered_keys, k)
    /\ ret' = get(inner, k)
    /\ inner' = HashMapInsert(inner, k, v)
    /\ UNCHANGED <<iters, trace>>

\* OrderedMap::insert(&mut self, key, value)
Insert(k, v) ==
    /\ call' = Call("insert")
    /\ InsertHistory(k, v)
    /\ NoneAlive
    /\ contains_key(inner, k) \/ Len(ordered_keys) < MaxLog
    /\ ordered_keys' = IF ~contains_key(inner, k)
                       THEN push(ordered_keys, k)
                       ELSE ordered_keys
    /\ ret' = get(inner, k)
    /\ inner' = HashMapInsert(inner, k, v)
    /\ UNCHANGED <<iters, trace>>

\* mutant: remove also purges the key's slots from the Vec
Remove_compact(k) ==
    /\ call' = Call("remove")
    /\ RemoveHistory(k)
    /\ NoneAlive
    /\ ret' = get(inner, k)
    /\ inner' = HashMapRemove(inner, k)
    /\ ordered_keys' = SelectSeq(ordered_keys, LAMBDA x : x # k)
    /\ UNCHANGED <<iters, trace>>

\* mutant: remove drops the newest slot of the Vec
Remove_pop(k) ==
    /\ call' = Call("remove")
    /\ RemoveHistory(k)
    /\ NoneAlive
    /\ ret' = get(inner, k)
    /\ inner' = HashMapRemove(inner, k)
    /\ ordered_keys' = SubSeq(ordered_keys, 1, Len(ordered_keys) - 1)
    /\ UNCHANGED <<iters, trace>>

\* OrderedMap::remove(&mut self, key)
Remove(k) ==
    /\ call' = Call("remove")
    /\ RemoveHistory(k)
    /\ NoneAlive
    /\ ret' = get(inner, k)
    /\ inner' = HashMapRemove(inner, k)
    /\ UNCHANGED <<ordered_keys, iters, trace>>

\* mutant: a new cursor starts where a cursor already alive stands
Iter_shared(c) ==
    /\ call' = Call("iter")
    /\ ~iters[c].alive
    /\ iters' = [iters EXCEPT ![c] =
                    [alive |-> TRUE,
                     remainder_keys |->
                        IF \E d \in IterIds : iters[d].alive
                        THEN iters[CHOOSE d \in IterIds : iters[d].alive].remainder_keys
                        ELSE ordered_keys]]
    /\ ret' = None
    /\ trace' = [trace EXCEPT ![c] =
                    [NoTrace EXCEPT !.expect = PairsOf(Drained(inner, ordered_keys))]]
    /\ UNCHANGED <<inner, ordered_keys, hist>>

\* OrderedMap::iter(&self)
Iter(c) ==
    /\ call' = Call("iter")
    /\ ~iters[c].alive
    /\ iters' = [iters EXCEPT ![c] = [alive |-> TRUE, remainder_keys |-> ordered_keys]]
    /\ ret' = None
    /\ trace' = [trace EXCEPT ![c] =
                    [NoTrace EXCEPT !.expect = PairsOf(Drained(inner, ordered_keys))]]
    /\ UNCHANGED <<inner, ordered_keys, hist>>

\* mutant: a cursor that returns None is rewound to the front
IterNext_restart(c) ==
    /\ call' = Call("next")
    /\ iters[c].alive
    /\ LET n == next(inner, iters[c].remainder_keys)
       IN  /\ iters' = [iters EXCEPT ![c].remainder_keys =
                           IF n.item = None THEN ordered_keys ELSE n.remainder_keys]
           /\ ret' = n.item
           /\ trace' = [trace EXCEPT ![c] = NextHistory(@, n.item)]
    /\ UNCHANGED <<inner, ordered_keys, hist>>

\* mutant: next() purges the dead slots from the Vec as it goes
IterNext_compact(c) ==
    /\ call' = Call("next")
    /\ iters[c].alive
    /\ LET n == next(inner, iters[c].remainder_keys)
       IN  /\ iters' = [iters EXCEPT ![c].remainder_keys = n.remainder_keys]
           /\ ret' = n.item
           /\ trace' = [trace EXCEPT ![c] = NextHistory(@, n.item)]
    /\ ordered_keys' = SelectSeq(ordered_keys, LAMBDA x : contains_key(inner, x))
    /\ UNCHANGED <<inner, hist>>

\* mutant: the slice is not advanced when a pair is returned
IterNext_stuck(c) ==
    /\ call' = Call("next")
    /\ iters[c].alive
    /\ LET n == next(inner, iters[c].remainder_keys)
       IN  /\ iters' = [iters EXCEPT ![c].remainder_keys =
                           IF n.item = None THEN n.remainder_keys ELSE @]
           /\ ret' = n.item
           /\ trace' = [trace EXCEPT ![c] = NextHistory(@, n.item)]
    /\ UNCHANGED <<inner, ordered_keys, hist>>

\* <OrderedMapIter as Iterator>::next(&mut self)
IterNext(c) ==
    /\ call' = Call("next")
    /\ iters[c].alive
    /\ LET n == next(inner, iters[c].remainder_keys)
       IN  /\ iters' = [iters EXCEPT ![c].remainder_keys = n.remainder_keys]
           /\ ret' = n.item
           /\ trace' = [trace EXCEPT ![c] = NextHistory(@, n.item)]
    /\ UNCHANGED <<inner, ordered_keys, hist>>

\* the cursor goes out of scope, ending its borrow of the map
DropIter(c) ==
    /\ call' = Call("drop")
    /\ iters[c].alive
    /\ iters' = [iters EXCEPT ![c] = NoIter]
    /\ ret' = None
    /\ trace' = [trace EXCEPT ![c] = NoTrace]
    /\ UNCHANGED <<inner, ordered_keys, hist>>

\* map.get(k) through Deref
Get(k) ==
    /\ call' = Call("get")
    /\ ret' = get(inner, k)
    /\ UNCHANGED <<inner, ordered_keys, iters, hist, trace>>

\* map.contains_key(k) through Deref
ContainsKey(k) ==
    /\ call' = Call("contains_key")
    /\ ret' = Some(contains_key(inner, k))
    /\ UNCHANGED <<inner, ordered_keys, iters, hist, trace>>

\* the owner mutates the map, looks keys up, and walks it with one cursor
\* at a time; the lookups are made between the walks
OneIter == {c \in IterIds : \A d \in IterIds : c <= d}

Next ==
    \/ \E k \in Keys, v \in Vals : Insert(k, v)
    \/ \E k \in Keys : Remove(k)
    \/ \E c \in OneIter : Iter(c)
    \/ \E c \in OneIter : IterNext(c)
    \/ \E c \in OneIter : DropIter(c)
    \/ NoneAlive /\ \E k \in Keys : Get(k)
    \/ NoneAlive /\ \E k \in Keys : ContainsKey(k)

Spec == Init /\ [][Next]_vars

\* several cursors alive at once over the same map; the values stored play
\* no part in where a cursor stands, so every insert stores the same one,
\* and the keys being interchangeable (K is only hashed and compared), the
\* keys not yet seen are first inserted in increasing order
AnyVal == CHOOSE v \in Vals : TRUE

SeenOrNextFresh(k) == k \in Range(firstInsert) \/ k = Len(firstInsert) + 1

NextIters ==
    \/ \E k \in Keys : SeenOrNextFresh(k) /\ Insert(k, AnyVal)
    \/ \E k \in Keys : Remove(k)
    \/ \E c \in IterIds : Iter(c)
    \/ \E c \in IterIds : IterNext(c)
    \/ \E c \in IterIds : DropIter(c)

SpecIters == Init /\ [][NextIters]_vars

TypeOK ==
    /\ DOMAIN inner \subseteq Keys
    /\ \A k \in DOMAIN inner : inner[k] \in Vals
    /\ Len(ordered_keys) <= MaxLog
\* --------------------------------------------------------------- claims
\* what a fresh iter() yields when drained, in the current state
D == Drained(inner, ordered_keys)

\* the same after the step
DNext == Drained(inner', ordered_keys')

KeysOf(d) == [i \in 1..Len(d) |-> d[i].key]

Live == DOMAIN inner

IsPrefix(s, t) == Len(s) <= Len(t) /\ SubSeq(t, 1, Len(s)) = s

Before(s, a, b) == \E i, j \in 1..Len(s) : i < j /\ s[i] = a /\ s[j] = b

HasTombstone == \E i \in 1..Len(ordered_keys) : ordered_keys[i] \notin Live

\* a slot of a dead key lies between two yielded slots
TombstoneInside(d) ==
    /\ Len(d) >= 2
    /\ \E i \in 1..Len(ordered_keys) :
          /\ ordered_keys[i] \notin Live
          /\ d[1].slot < i
          /\ i < d[Len(d)].slot

\* C1: a drained fresh iterator yields only live entries with their
\* current values, and yields every key of the Index at least once.
C1_YieldsLiveAndAll ==
    LET d == D
    IN  /\ \A i \in 1..Len(d) : d[i].key \in Live /\ d[i].value = inner[d[i].key]
        /\ \A k \in Live : \E i \in 1..Len(d) : d[i].key = k

C1_Witness ==
    /\ Len(D) >= 2
    /\ HasTombstone
    /\ call.op \in {"insert", "remove"}

\* C2: two live keys that were never removed are yielded in the order of
\* their first inserts.
C2_FirstInsertionOrder ==
    LET ks == KeysOf(D)
    IN  \A a, b \in Live \ everRemoved :
            a # b => (Before(ks, a, b) <=> Before(firstInsert, a, b))

C2_Witness ==
    /\ Cardinality(Live \ everRemoved) >= 2
    /\ TombstoneInside(D)

\* C3 (as stated): a key re-inserted after a removal is yielded by a fresh
\* iteration only at the slot its re-insertion appended; its old slot is
\* skipped.
C3_ReinsertedOnlyAtNewSlot ==
    LET d == D
    IN  \A k \in reinserted \cap Live :
            {d[i].slot : i \in {j \in 1..Len(d) : d[j].key = k}} = {slotOf[k]}

\* C4: insert of a key that is in the Index overwrites the value and leaves
\* the Order Log unchanged; the drained sequence keeps every position and
\* changes only the value of that key.
C4_ReinsertLiveKeepsOrder ==
    [][\A k \in Live, v \in Vals :
          Insert(k, v) =>
              LET d == D
              IN  /\ inner'[k] = v
                  /\ ordered_keys' = ordered_keys
                  /\ DNext = [i \in 1..Len(d) |->
                                 IF d[i].key = k
                                 THEN [d[i] EXCEPT !.value = v]
                                 ELSE d[i]]
      ]_vars

C4_Witness ==
    /\ call.op = "insert"
    /\ ret # None
    /\ \A k \in Live : ret # Some(inner[k])
    /\ Len(D) >= 2

\* C5: insert returns the previous value or absent, maps the key to the new
\* value, leaves the other Index entries alone, and appends one slot for the
\* key exactly when the key was absent.
C5_InsertContract ==
    [][\A k \in Keys, v \in Vals :
          Insert(k, v) =>
              /\ ret' = IF k \in Live THEN Some(inner[k]) ELSE None
              /\ k \in DOMAIN inner' /\ inner'[k] = v
              /\ DOMAIN inner' = Live \cup {k}
              /\ \A x \in Live \ {k} : inner'[x] = inner[x]
              /\ ordered_keys' = IF k \in Live
                                 THEN ordered_keys
                                 ELSE ordered_keys \o <<k>>
      ]_vars

C5_Witness ==
    /\ call.op = "insert"
    /\ ret = None
    /\ Cardinality(Live) >= 2
    /\ ordered_keys[Len(ordered_keys)] \in everRemoved

\* C6: remove of a key in the Index returns its value and deletes only that
\* key; the Order Log is unchanged and the drained sequence is the previous
\* one without that key's pairs.
C6_RemovePresent ==
    [][\A k \in Live :
          Remove(k) =>
              /\ ret' = Some(inner[k])
              /\ DOMAIN inner' = Live \ {k}
              /\ \A x \in Live \ {k} : inner'[x] = inner[x]
              /\ ordered_keys' = ordered_keys
              /\ DNext = SelectSeq(D, LAMBDA e : e.key # k)
      ]_vars

C6_Witness ==
    /\ call.op = "remove"
    /\ ret # None
    /\ Cardinality(everRemoved) = 1
    /\ TombstoneInside(D)

\* C7: remove of a key that is not in the Index returns absent and changes
\* neither the Index, nor the Order Log, nor the drained sequence.
C7_RemoveAbsentNoOp ==
    [][\A k \in Keys \ Live :
          Remove(k) =>
              /\ ret' = None
              /\ inner' = inner
              /\ ordered_keys' = ordered_keys
              /\ DNext = D
      ]_vars

C7_Witness ==
    /\ call.op = "remove"
    /\ ret = None
    /\ Range(ordered_keys) = Keys
    /\ HasTombstone
    /\ D # <<>>

\* C8: when no key was re-inserted after a removal, the drained sequence is
\* exactly the live keys, once each, with their current values, in the order
\* of their first inserts.
C8_NoReinsertExactOnce ==
    reinserted = {} =>
        LET d == D
        IN  /\ KeysOf(d) = SelectSeq(firstInsert, LAMBDA k : k \in Live)
            /\ \A i, j \in 1..Len(d) : d[i].key = d[j].key => i = j
            /\ \A i \in 1..Len(d) : d[i].value = inner[d[i].key]

C8_Witness ==
    /\ reinserted = {}
    /\ TombstoneInside(D)
    /\ call.op = "remove"

\* C9: every key in the Index appears in the Order Log.
C9_LiveKeysInLog == Live \subseteq Range(ordered_keys)

C9_Witness ==
    /\ Cardinality(Live) >= 2
    /\ reinserted \cap Live # {}

\* C10: the Order Log is append-only: every step keeps the old log as a
\* prefix of the new one, and the log grows, by one slot, exactly on an
\* insert of a key absent from the Index.
C10_LogAppendOnly ==
    [][/\ IsPrefix(ordered_keys, ordered_keys')
       /\ Len(ordered_keys') =
             IF \E k \in Keys \ Live : \E v \in Vals : Insert(k, v)
             THEN Len(ordered_keys) + 1
             ELSE Len(ordered_keys)
      ]_vars

C10_Witness ==
    /\ call.op = "remove"
    /\ ret # None
    /\ Len(ordered_keys) >= 3
    /\ reinserted # {}

IsSuffix(s, t) == Len(s) <= Len(t) /\ SubSeq(t, Len(t) - Len(s) + 1, Len(t)) = s

\* C11: the Order Log is at least as long as the Index is large, and the
\* two are equal only when no remove call has deleted a key and no key has
\* been removed and re-inserted.
C11_LogAtLeastLive ==
    /\ Len(ordered_keys) >= Cardinality(Live)
    /\ Len(ordered_keys) = Cardinality(Live) => nDeleted = 0 /\ reinserted = {}

C11_Witness ==
    /\ Len(ordered_keys) = Cardinality(Live)
    /\ Len(ordered_keys) >= 2
    /\ call.op = "remove"

\* C12: once next() on a cursor has returned None, every later next() on
\* that cursor returns None and changes neither the cursor nor the map.
C12_ExhaustionPermanent ==
    [][\A c \in IterIds :
          (trace[c].exhausted /\ IterNext(c)) =>
              /\ ret' = None
              /\ iters' = iters
              /\ inner' = inner
              /\ ordered_keys' = ordered_keys
      ]_vars

C12_Witness ==
    /\ call.op = "next"
    /\ ret = None
    /\ \E c \in IterIds : trace[c].again /\ Len(trace[c].yielded) >= 1

\* C13: iter(), next(), get and contains_key leave the Index and the Order
\* Log unchanged; a step that changes either is an insert or a remove.
C13_ReadsDoNotMutate ==
    [][/\ ( \/ \E c \in IterIds : Iter(c) \/ IterNext(c)
            \/ \E k \in Keys : Get(k) \/ ContainsKey(k) )
          => (inner' = inner /\ ordered_keys' = ordered_keys)
       /\ (inner' # inner \/ ordered_keys' # ordered_keys)
          => \E k \in Keys : Remove(k) \/ \E v \in Vals : Insert(k, v)
      ]_vars

C13_Witness ==
    /\ call.op = "next"
    /\ ret # None
    /\ HasTombstone
    /\ \E c \in IterIds : iters[c].alive /\ iters[c].remainder_keys # <<>>

\* C14: every iter() returns a cursor over the whole current Order Log
\* whatever the other cursors have done, a next() on one cursor leaves the
\* other cursors alone, and what a cursor yields is, in order, what the map
\* held when its iter() was called, all of it once it has returned None.
C14_CursorsIndependent ==
    [][/\ \A c \in IterIds :
            Iter(c) =>
                /\ iters'[c].remainder_keys = ordered_keys
                /\ \A d \in IterIds \ {c} : iters'[d] = iters[d]
       /\ \A c \in IterIds :
            IterNext(c) => \A d \in IterIds \ {c} : iters'[d] = iters[d]
       /\ \A c \in IterIds :
            /\ IsPrefix(trace'[c].yielded, trace'[c].expect)
            /\ trace'[c].exhausted => trace'[c].yielded = trace'[c].expect
      ]_vars

C14_Witness ==
    /\ call.op = "iter"
    /\ HasTombstone
    /\ \E c, d \in IterIds :
          /\ c # d
          /\ iters[c].alive /\ iters[d].alive
          /\ trace[c].exhausted
          /\ Len(trace[c].yielded) >= 2
          /\ trace[d].calls = 0
          /\ iters[d].remainder_keys = ordered_keys

\* C15: when the Index holds no keys, the first next() of a fresh cursor
\* returns None, whether the Order Log is empty or holds only tombstones.
C15_EmptyIndexEndsAtOnce ==
    [][\A c \in IterIds :
          (Live = {} /\ trace[c].calls = 0 /\ IterNext(c)) => ret' = None
      ]_vars

C15_Witness ==
    /\ Live = {}
    /\ Len(ordered_keys) >= 2
    /\ call.op = "next"
    /\ ret = None
    /\ \E c \in IterIds : trace[c].calls = 1 /\ ~trace[c].again

\* C16: get(k) returns the value of the last insert of k and contains_key(k)
\* is true when the last insert/remove of k was an insert; get(k) is absent
\* and contains_key(k) false when k was never inserted or was last removed.
C16_LookupsReflectLastMutation ==
    [][\A k \in Keys :
          /\ Get(k) => ret' = lastMut[k]
          /\ ContainsKey(k) => ret' = Some(lastMut[k] # None)
      ]_vars

C16_Witness ==
    /\ call.op = "get"
    /\ ret = None
    /\ Range(ordered_keys) = Keys
    /\ Live # {}

\* C17: a next() call on a cursor with slots left consumes slots from the
\* front: it discards the leading slots of dead keys, yields the pair of the
\* first slot of a live key and consumes that slot too; a slot of a live key
\* is never discarded unyielded, and the remainder of every cursor is a
\* suffix of the Order Log.
C17_NextConsumesFromFront ==
    [][/\ \A c \in IterIds :
            (iters[c].remainder_keys # <<>> /\ IterNext(c)) =>
                LET rem  == iters[c].remainder_keys
                    rem2 == iters'[c].remainder_keys
                    n    == Len(rem) - Len(rem2)
                IN  /\ n >= 1
                    /\ rem2 = SubSeq(rem, n + 1, Len(rem))
                    /\ \A i \in 1..(n - 1) : rem[i] \notin Live
                    /\ IF rem[n] \in Live
                       THEN ret' = Some(<<rem[n], inner[rem[n]]>>)
                       ELSE ret' = None /\ rem2 = <<>>
       /\ \A c \in IterIds : IsSuffix(iters'[c].remainder_keys, ordered_keys')
      ]_vars

C17_Witness ==
    /\ call.op = "next"
    /\ ret # None
    /\ \E c \in IterIds :
          LET pos == Len(ordered_keys) - Len(iters[c].remainder_keys)
          IN  /\ iters[c].alive
              /\ pos >= 2
              /\ ordered_keys[pos] \in Live
              /\ ordered_keys[pos - 1] \notin Live
              /\ iters[c].remainder_keys # <<>>

\* C18: every next() call consumes at least one slot when slots remain and
\* none otherwise; a cursor over an Order Log of length n yields at most n
\* pairs and has returned None after at most n + 1 calls.
C18_IterationTerminates ==
    [][/\ \A c \in IterIds :
            IterNext(c) =>
                IF iters[c].remainder_keys = <<>>
                THEN iters'[c].remainder_keys = <<>> /\ ret' = None
                ELSE Len(iters'[c].remainder_keys) < Len(iters[c].remainder_keys)
       /\ \A c \in IterIds :
            /\ Len(trace'[c].yielded) <= Len(ordered_keys')
            /\ trace'[c].calls <= Len(ordered_keys') + 1
            /\ trace'[c].calls = Len(ordered_keys') + 1 => trace'[c].exhausted
      ]_vars

C18_Witness ==
    /\ Len(ordered_keys) >= 2
    /\ HasTombstone
    /\ \E c \in IterIds :
          /\ trace[c].exhausted
          /\ trace[c].calls = Cardinality(Live) + 1
          /\ Len(trace[c].yielded) >= 1

\* C19 (as stated): a drained fresh iterator never yields a key twice: it
\* yields as many pairs as the Index has keys.
C19_NoDuplicateYield ==
    LET d == D
    IN  /\ Len(d) = Cardinality(Live)
        /\ \A i, j \in 1..Len(d) : d[i].key = d[j].key => i = j

\* C20: the Order Log is as long as the number of keys in the Index plus the
\* number of remove calls that deleted a key, and for every key the number
\* of its slots is the number of inserts made while it was absent.
C20_LogLengthAccounting ==
    /\ Len(ordered_keys) = Cardinality(Live) + nDeleted
    /\ \A k \in Keys :
          Cardinality({i \in 1..Len(ordered_keys) : ordered_keys[i] = k})
              = nAbsentInserts[k]

C20_Witness ==
    /\ nDeleted >= 2
    /\ reinserted # {}
    /\ Live # {}
====
